---- MODULE Spec2Model ----
(***************************************************************************)
(* Model of circpacker's geometric core (circpacker/core/basegeom.py):     *)
(* the Circle value object with Circle.descartesTheorem, the Triangle      *)
(* value object with Triangle.getGeomProperties, and the fractal packing   *)
(* loop Triangle.circInTriangle.                                           *)
(*                                                                         *)
(* Numbers.  The program computes in binary floating point.  The model     *)
(* computes in decimal fixed point: a real v is the integer nearest to     *)
(* v*Scale.  Every arithmetic expression of the source is translated       *)
(* operator by operator (a*b -> Mul, a/b -> Div, x**0.5 -> Sqrt,           *)
(* x**-1 -> Div(One, x)), each rounding to nearest, so that rounding       *)
(* happens where the program rounds, only coarser.                         *)
(* A division by zero and a square root of a negative number are modelled  *)
(* as the exceptions Python raises for them.                               *)
(***************************************************************************)
EXTENDS Integers, Sequences, FiniteSets, TLC

(***************************************************************************)
(* Fixed-point arithmetic standing for the program's float arithmetic.     *)
(***************************************************************************)
\* number of fixed-point units per 1.0
Scale == 1000
\* 1.0
One == Scale
\* np.pi
Pi == 3142

\* an optional value: None, or Some(x); Val gives x back
None == <<>>
Some(x) == <<x>>
Val(o) == o[1]

ZeroDivisionError == "ZeroDivisionError"
TypeError == "TypeError"
ValueError == "ValueError"

\* the result of an operation that may raise: the value, or the exception
Ok(x) == [ok |-> TRUE, val |-> x]
Err(e) == [ok |-> FALSE, exc |-> e]
IsError(r) == ~r.ok

Abs(x) == IF x < 0 THEN -x ELSE x

\* a * b, that is a*b/Scale rounded to nearest, split so that the
\* intermediate product stays inside the integer range
Mul(a, b) ==
    (a \div Scale) * b + ((a % Scale) * b + Scale \div 2) \div Scale

\* a / b for b # 0, rounded to nearest (the sign of b is moved to a: \div
\* takes a positive divisor)
Div(a, b) ==
    IF b > 0 THEN (a * Scale + b \div 2) \div b
             ELSE ((-a) * Scale + (-b) \div 2) \div (-b)

RECURSIVE ISqrtBS(_, _, _)
\* largest s in lo..hi with s*s <= n
ISqrtBS(n, lo, hi) ==
    IF lo >= hi THEN lo
    ELSE LET mid == (lo + hi + 1) \div 2
         IN  IF mid * mid <= n THEN ISqrtBS(n, mid, hi)
                               ELSE ISqrtBS(n, lo, mid - 1)

\* the integer nearest to the square root of n; 46340 = floor(sqrt(2^31 - 1))
ISqrt(n) ==
    LET s == ISqrtBS(n, 0, 46340)
    IN  IF n - s * s > s THEN s + 1 ELSE s

\* x ** 0.5 for x >= 0: sqrt(x*Scale); for very large x the factor
\* sqrt(Scale) is applied after the root to stay inside the integer range
Sqrt(x) ==
    IF x < 2000000 THEN ISqrt(x * Scale)
    ELSE (ISqrt(x) * ISqrt(Scale * Scale * Scale)) \div Scale

\* _euclidean_distance(point_a, point_b): np.linalg.norm is one library
\* call, and its result is rounded once (the squares of the differences are
\* exact integers of the model)
EuclideanDistance(point_a, point_b) ==
    LET dx == point_a[1] - point_b[1]
        dy == point_a[2] - point_b[2]
    IN  ISqrt(dx * dx + dy * dy)

(***************************************************************************)
(* class Circle                                                            *)
(***************************************************************************)
\* Circle.__init__: 1 / self.radius raises ZeroDivisionError for radius 0
Circle(center, radius) ==
    IF radius = 0 THEN Err(ZeroDivisionError)
    ELSE Ok([center    |-> center,
             radius    |-> radius,
             curvature |-> Div(One, radius),
             diameter  |-> 2 * radius,
             area      |-> Mul(Pi, Mul(radius, radius)),
             perimeter |-> Mul(2 * radius, Pi)])

\* the radicand of the curvature formula (circle2 = None: special case of
\* Descartes' theorem; otherwise the general case)
DescartesRadicand(self, circle1, circle2) ==
    IF circle2 = None
    THEN Mul(self.curvature, circle1.curvature)
    ELSE Mul(self.curvature, circle1.curvature)
         + Mul(circle1.curvature, Val(circle2).curvature)
         + Mul(Val(circle2).curvature, self.curvature)

\* the sum whose inverse is the new radius; the general case adds
\* circle2.radius next to circle2.curvature, as the source does
DescartesCurvature(self, circle1, circle2) ==
    IF circle2 = None
    THEN self.curvature + circle1.curvature
         + 2 * Sqrt(DescartesRadicand(self, circle1, circle2))
    ELSE self.curvature + circle1.curvature
         + Val(circle2).radius + Val(circle2).curvature
         + 2 * Sqrt(DescartesRadicand(self, circle1, circle2))

\* variant: the half-length of the chord is taken from R2 instead of R1
DescartesCentersChordFromR2(self, circle1, radius) ==
    LET R1 == self.radius + radius
        R2 == circle1.radius + radius
        dist == self.radius + circle1.radius
    IN  IF dist = 0 THEN Err(ZeroDivisionError)
        ELSE
        LET cos == Div(circle1.center[1] - self.center[1], dist)
            sin == Div(circle1.center[2] - self.center[2], dist)
            chordDist == Div(Mul(R1, R1) - Mul(R2, R2) + Mul(dist, dist),
                             2 * dist)
            halfChord2 == Mul(R2, R2) - Mul(chordDist, chordDist)
        IN  IF halfChord2 < 0 THEN Err(TypeError)
            ELSE
            LET halfChord == Sqrt(halfChord2)
                center3 == <<self.center[1] + Mul(chordDist, cos)
                                            - Mul(halfChord, sin),
                             self.center[2] + Mul(chordDist, sin)
                                            + Mul(halfChord, cos)>>
                center4 == <<self.center[1] + Mul(chordDist, cos)
                                            + Mul(halfChord, sin),
                             self.center[2] + Mul(chordDist, sin)
                                            - Mul(halfChord, cos)>>
            IN  IF radius = 0 THEN Err(ZeroDivisionError)
                ELSE Ok(<<Circle(center3, radius).val,
                          Circle(center4, radius).val>>)

\* the centers and the two circles, once the new radius is known
DescartesCenters(self, circle1, radius) ==
    LET R1 == self.radius + radius
        R2 == circle1.radius + radius
        dist == self.radius + circle1.radius
    IN  IF dist = 0 THEN Err(ZeroDivisionError)
        ELSE
        LET cos == Div(circle1.center[1] - self.center[1], dist)
            sin == Div(circle1.center[2] - self.center[2], dist)
            chordDist == Div(Mul(R1, R1) - Mul(R2, R2) + Mul(dist, dist),
                             2 * dist)
            halfChord2 == Mul(R1, R1) - Mul(chordDist, chordDist)
        IN  IF halfChord2 < 0 THEN Err(TypeError)
            ELSE
            LET halfChord == Sqrt(halfChord2)
                center3 == <<self.center[1] + Mul(chordDist, cos)
                                            - Mul(halfChord, sin),
                             self.center[2] + Mul(chordDist, sin)
                                            + Mul(halfChord, cos)>>
                center4 == <<self.center[1] + Mul(chordDist, cos)
                                            + Mul(halfChord, sin),
                             self.center[2] + Mul(chordDist, sin)
                                            - Mul(halfChord, cos)>>
            IN  IF radius = 0 THEN Err(ZeroDivisionError)
                ELSE Ok(<<Circle(center3, radius).val,
                          Circle(center4, radius).val>>)

\* Circle.descartesTheorem(self, circle1, circle2=None): the pair of new
\* circles, or the exception the call raises
descartesTheorem(self, circle1, circle2) ==
    IF DescartesRadicand(self, circle1, circle2) < 0
    THEN \* the root is a complex number: the division by 2 * dist comes
         \* before Circle(...), which is where a complex number is refused
         IF self.radius + circle1.radius = 0 THEN Err(ZeroDivisionError)
                                             ELSE Err(TypeError)
    ELSE LET k == DescartesCurvature(self, circle1, circle2)
         IN  IF k = 0 THEN Err(ZeroDivisionError)
             ELSE DescartesCenters(self, circle1, Div(One, k))

(***************************************************************************)
(* class Triangle                                                          *)
(***************************************************************************)
\* the keys of Triangle.vertices, in insertion order: dict(zip("ABC", ...))
Labels == <<"A", "B", "C">>

\* Triangle.getGeomProperties, for the vertices v = [A |-> .., B |-> .., C |-> ..]
GeomArea(v) ==
    Mul(One \div 2,
        Abs(  (Mul(v.A[1], v.B[2]) - Mul(v.A[2], v.B[1]))
            + (Mul(v.B[1], v.C[2]) - Mul(v.B[2], v.C[1]))
            + (Mul(v.C[1], v.A[2]) - Mul(v.C[2], v.A[1]))))

GeomSides(v) ==
    [a |-> EuclideanDistance(v.B, v.C),
     b |-> EuclideanDistance(v.A, v.C),
     c |-> EuclideanDistance(v.A, v.B)]

GeomPerimeter(v) == GeomSides(v).a + GeomSides(v).b + GeomSides(v).c

\* inscribed circle radius
GeomRadius(v) == Div(2 * GeomArea(v), GeomPerimeter(v))

\* inscribed circle center
GeomCenter(v) ==
    LET s == GeomSides(v)
    IN  <<Div(Mul(s.a, v.A[1]) + Mul(s.b, v.B[1]) + Mul(s.c, v.C[1]),
              GeomPerimeter(v)),
          Div(Mul(s.a, v.A[2]) + Mul(s.b, v.B[2]) + Mul(s.c, v.C[2]),
              GeomPerimeter(v))>>

\* distances of each vertex to the incenter, in the order of the vertices
GeomDistToIncenter(v) ==
    [k \in 1..3 |-> EuclideanDistance(GeomCenter(v), v[Labels[k]])]

(***************************************************************************)
(* Bounds of the model.                                                    *)
(***************************************************************************)
\* largest depth argument of the contiguous range tried
MaxDepth == 2
\* a depth at which the radii have shrunk below the resolution of the
\* arithmetic (the program's floats get there at a depth of about 25 for
\* the triangle of the test suite)
DeepDepth == 5
\* largest number of iterations followed in one vertex branch of the
\* length-bounded loop
MaxIter == 3

\* the triangles tried: three vertices each, of positive area.  The first
\* has sides 8.112, 6.0, 7.392 and incircle radius 1.98 (all distances to
\* the incenter are rational); the second is the one of the test suite.
Coordinates ==
    { <<<<0, 0>>, <<7392, 0>>, <<1680, 5760>>>>,
      <<<<2000, 1500>>, <<4500, 4000>>, <<6000, 2000>>>> }

\* the depth arguments and the lenght / length arguments tried; 0.99 is the
\* diameter of the first circle towards vertex A of the first triangle
DepthArgs  == {None} \cup {Some(d) : d \in (-1..MaxDepth) \cup {DeepDepth}}
Lengths    == {-500, 0, 500, 990}
LengthArgs == {None} \cup {Some(l) : l \in Lengths}

\* the arguments tried when the caller compares the results of two calls
MemoDepthArgs  == {None, Some(0), Some(1)}
MemoLengths    == {500, 990}
MemoLengthArgs == {None} \cup {Some(l) : l \in MemoLengths}

(***************************************************************************)
(* State.                                                                  *)
(***************************************************************************)
VARIABLES
    \* the attributes of the Triangle instance
    vertices, area, sides, perimeter, distToIncenter, incircle,
    \* Triangle.lstCirc: None until the first call of circInTriangle sets it
    self_lstCirc,
    \* the running (or last) call of circInTriangle: its arguments as passed ...
    args,
    \* ... its local variables (lenght after the alias has been resolved) ...
    lenght, lstCirc, auxCirc, auxDist,
    \* ... the position of the loop over the vertices (1..3), the number of
    \* iterations completed in the current branch, and the program position:
    \* "idle" (no call made yet), "loop", "exit" (after the loop), and the
    \* two ways a call ends, "returned" and "raised"
    vi, i, pc,
    \* the outcome of the last call: the value returned and the exception
    \* raised (None: none), and whether a figure has been drawn
    ret, raised, plotted,
    \* the caller's note of one earlier call: its arguments and its outcome
    memo,
    \* the Circle objects a caller holds, [self, circle1, circle2] (circle2
    \* optional; None: the caller holds none), and the outcome of its call
    \* self.descartesTheorem(circle1, circle2) (None: not called)
    operands, circles

triangleVars == <<vertices, area, sides, perimeter, distToIncenter, incircle>>
frameVars == <<args, lenght, lstCirc, auxCirc, auxDist, vi, i>>
circleVars == <<operands, circles>>
vars == <<vertices, area, sides, perimeter, distToIncenter, incircle,
          self_lstCirc, args, lenght, lstCirc, auxCirc, auxDist, vi, i, pc,
          ret, raised, plotted, memo, operands, circles>>

NoArgs == [depth |-> None, lenght |-> None, want2plot |-> FALSE, length |-> None]

\* Triangle.__init__(coordinates); no call of circInTriangle has been made
NewTriangle(coordinates) ==
    LET v == [A |-> coordinates[1], B |-> coordinates[2], C |-> coordinates[3]]
    IN  /\ vertices = v
        /\ area = GeomArea(v)
        /\ sides = GeomSides(v)
        /\ perimeter = GeomPerimeter(v)
        /\ distToIncenter = GeomDistToIncenter(v)
        /\ incircle = Circle(GeomCenter(v), GeomRadius(v)).val
        /\ self_lstCirc = None
        /\ args = NoArgs
        /\ lenght = None
        /\ lstCirc = <<>>
        /\ auxCirc = incircle
        /\ auxDist = 0
        /\ vi = 0
        /\ i = 0
        /\ pc = "idle"
        /\ ret = None
        /\ raised = None
        /\ plotted = FALSE
        /\ memo = None

\* a Triangle has been constructed; the caller holds no Circle of its own
Init ==
    /\ \E coordinates \in Coordinates : NewTriangle(coordinates)
    /\ operands = None
    /\ circles = None

(***************************************************************************)
(* Triangle.circInTriangle                                                 *)
(***************************************************************************)
\* variant: a depth is honoured whether or not a length is given
DepthModeAnyLength == args.depth # None /\ Val(args.depth) >= 0

\* the two stopping policies, as the if / elif of the loop body tests them
LengthMode == args.depth = None /\ lenght # None
DepthMode  == lenght = None /\ args.depth # None /\ Val(args.depth) >= 0

\* no call is running
Callable == pc \in {"idle", "returned", "raised"}

\* the call is over: its local variables are gone
DropLocals ==
    /\ lenght' = None
    /\ lstCirc' = <<>>
    /\ auxCirc' = incircle
    /\ auxDist' = 0
    /\ vi' = 0
    /\ i' = 0

\* the exception is raised: the call is over, no attribute has been set
Raise(exc) ==
    /\ raised' = Some(exc)
    /\ ret' = None
    /\ pc' = "raised"
    /\ DropLocals
    /\ UNCHANGED <<self_lstCirc, plotted>>

\* the loop over the vertices enters the branch of vertex k, or is over
EnterVertex(k) ==
    IF k <= 3
    THEN /\ vi' = k
         /\ auxCirc' = incircle
         /\ auxDist' = distToIncenter[k]
         /\ i' = 0
         /\ pc' = "loop"
    ELSE /\ pc' = "exit"
         /\ UNCHANGED <<vi, auxCirc, auxDist, i>>

\* variant: the test for the legacy name is inverted
AliasConflictInverted(l1, l2) == l2 # None /\ l1 = None /\ l2 # l1

\* both length (l2) and the legacy lenght (l1) are given, and they differ
AliasConflict(l1, l2) == l2 # None /\ l1 # None /\ l2 # l1

\* variant: the assignment `lenght = length` is missing
ResolveAliasDropped(l1, l2) == l1

\* lenght = length, when length is given
ResolveAlias(l1, l2) == IF l2 # None THEN l2 ELSE l1

\* variant: the list goes on from the one the last call left in the attribute
InitialListFromCache ==
    IF self_lstCirc = None THEN <<incircle>> ELSE Val(self_lstCirc)

\* lstCirc = [self.incircle]
InitialList == <<incircle>>

\* the call, the resolution of the alias and the first element of the list
CallWith(depths, lenghts, lengths, plots) ==
    /\ Callable
    /\ \E d \in depths, l1 \in lenghts, l2 \in lengths, w \in plots :
        /\ args' = [depth |-> d, lenght |-> l1, want2plot |-> w, length |-> l2]
        /\ IF AliasConflict(l1, l2)
           THEN Raise(ValueError)
           ELSE /\ lenght' = ResolveAlias(l1, l2)
                /\ lstCirc' = InitialList
                /\ EnterVertex(1)
                /\ raised' = None
                /\ ret' = None
                /\ UNCHANGED <<self_lstCirc, plotted>>
    /\ UNCHANGED <<triangleVars, memo, circleVars>>

Call == CallWith(DepthArgs, LengthArgs, LengthArgs, BOOLEAN)

\* variant: the square of the radius is added, not subtracted
NewRadiusSum == Div(Mul(auxCirc.radius, auxDist) + Mul(auxCirc.radius, auxCirc.radius),
                    auxCirc.radius + auxDist)

\* the candidate radius of the circle with center on the bisectrix
NewRadius == Div(Mul(auxCirc.radius, auxDist) - Mul(auxCirc.radius, auxCirc.radius),
                 auxCirc.radius + auxDist)

\* variant: the center is put at the distance radius, not
\* auxCirc.radius + radius, from the center of auxCirc
NewCircleAtRadius(radius) ==
    IF auxDist = 0 THEN Err(ZeroDivisionError)
    ELSE LET vert == vertices[Labels[vi]]
             ratio == Div(radius, auxDist)
         IN  Circle(<<auxCirc.center[1] + Mul(ratio, vert[1] - auxCirc.center[1]),
                      auxCirc.center[2] + Mul(ratio, vert[2] - auxCirc.center[2])>>,
                    radius)

\* the circle with center on the bisectrix, or the exception raised
NewCircle(radius) ==
    IF auxDist = 0 THEN Err(ZeroDivisionError)
    ELSE LET vert == vertices[Labels[vi]]
             dist == auxCirc.radius + radius
             ratio == Div(dist, auxDist)
         IN  Circle(<<auxCirc.center[1] + Mul(ratio, vert[1] - auxCirc.center[1]),
                      auxCirc.center[2] + Mul(ratio, vert[2] - auxCirc.center[2])>>,
                    radius)

\* lstCirc.extend(...) and the update of the variables that ends an iteration
Advance(circle, new) ==
    /\ lstCirc' = lstCirc \o new
    /\ auxDist' = EuclideanDistance(vertices[Labels[vi]], circle.center)
    /\ auxCirc' = circle
    /\ i' = i + 1
    /\ UNCHANGED <<vi, pc, lenght, ret, raised, self_lstCirc, plotted>>

\* the branch of the current vertex is left without appending anything
LeaveBranch ==
    /\ EnterVertex(vi + 1)
    /\ UNCHANGED <<lenght, lstCirc, ret, raised, self_lstCirc, plotted>>

\* variant: the loop stops only below the length
LengthStopStrict(radius) == 2 * radius < Val(lenght)

\* the stop condition of the length-bounded loop
LengthStop(radius) == 2 * radius <= Val(lenght)

\* the circles one iteration of the `while True` loop appends
LengthCircles(circle) ==
    LET c3 == descartesTheorem(auxCirc, circle, None)
    IN  IF IsError(c3) THEN c3
        ELSE Ok(<<circle, c3.val[1], c3.val[2]>>)

\* one iteration of the `while True` loop of the length-bounded branch
LengthStep ==
    /\ pc = "loop"
    /\ LengthMode
    /\ UNCHANGED <<triangleVars, args, memo, circleVars>>
    /\ IF auxCirc.radius + auxDist = 0 THEN Raise(ZeroDivisionError)
       ELSE LET radius == NewRadius
            IN  IF LengthStop(radius)
                THEN LeaveBranch
                ELSE /\ i < MaxIter
                     /\ LET circle == NewCircle(radius)
                        IN  IF IsError(circle) THEN Raise(circle.exc)
                            ELSE LET new == LengthCircles(circle.val)
                                 IN  IF IsError(new) THEN Raise(new.exc)
                                     ELSE Advance(circle.val, new.val)

\* variants: c51 is kept too; c41 and c42 change places
DepthCirclesWithC51(circle) ==
    LET c3 == descartesTheorem(auxCirc, circle, None)
    IN  IF IsError(c3) THEN c3
        ELSE
        LET c31 == c3.val[1]
            c32 == c3.val[2]
            c4 == descartesTheorem(auxCirc, circle, Some(c31))
            c5 == descartesTheorem(circle, c31, None)
            c6 == descartesTheorem(circle, c32, None)
            c7 == descartesTheorem(auxCirc, c31, None)
            c8 == descartesTheorem(auxCirc, c32, None)
        IN  IF IsError(c4) THEN c4
            ELSE IF IsError(c5) THEN c5
            ELSE IF IsError(c6) THEN c6
            ELSE IF IsError(c7) THEN c7
            ELSE IF IsError(c8) THEN c8
            ELSE Ok(<<circle, c31, c32, c4.val[1], c4.val[2], c5.val[1],
                      c5.val[2], c6.val[1], c7.val[1], c8.val[2]>>)

DepthCirclesSwapped(circle) ==
    LET c3 == descartesTheorem(auxCirc, circle, None)
    IN  IF IsError(c3) THEN c3
        ELSE
        LET c31 == c3.val[1]
            c32 == c3.val[2]
            c4 == descartesTheorem(auxCirc, circle, Some(c31))
            c5 == descartesTheorem(circle, c31, None)
            c6 == descartesTheorem(circle, c32, None)
            c7 == descartesTheorem(auxCirc, c31, None)
            c8 == descartesTheorem(auxCirc, c32, None)
        IN  IF IsError(c4) THEN c4
            ELSE IF IsError(c5) THEN c5
            ELSE IF IsError(c6) THEN c6
            ELSE IF IsError(c7) THEN c7
            ELSE IF IsError(c8) THEN c8
            ELSE Ok(<<circle, c31, c32, c4.val[2], c4.val[1], c5.val[2],
                      c6.val[1], c7.val[1], c8.val[2]>>)

\* the circles one iteration of the `for i in range(1, depth + 1)` loop appends
DepthCircles(circle) ==
    LET c3 == descartesTheorem(auxCirc, circle, None)
    IN  IF IsError(c3) THEN c3
        ELSE
        LET c31 == c3.val[1]
            c32 == c3.val[2]
            c4 == descartesTheorem(auxCirc, circle, Some(c31))
            c5 == descartesTheorem(circle, c31, None)
            c6 == descartesTheorem(circle, c32, None)
            c7 == descartesTheorem(auxCirc, c31, None)
            c8 == descartesTheorem(auxCirc, c32, None)
        IN  IF IsError(c4) THEN c4
            ELSE IF IsError(c5) THEN c5
            ELSE IF IsError(c6) THEN c6
            ELSE IF IsError(c7) THEN c7
            ELSE IF IsError(c8) THEN c8
            ELSE Ok(<<circle, c31, c32, c4.val[1], c4.val[2], c5.val[2],
                      c6.val[1], c7.val[1], c8.val[2]>>)

\* variant: range(0, depth + 1)
DepthRangeFromZero == i >= Val(args.depth) + 1

\* range(1, depth + 1) is exhausted after i iterations
DepthRangeExhausted == i >= Val(args.depth)

\* one iteration of the `for` loop of the depth-bounded branch, or its end
DepthStep ==
    /\ pc = "loop"
    /\ DepthMode
    /\ UNCHANGED <<triangleVars, args, memo, circleVars>>
    /\ IF DepthRangeExhausted THEN LeaveBranch
       ELSE IF auxCirc.radius + auxDist = 0 THEN Raise(ZeroDivisionError)
       ELSE LET circle == NewCircle(NewRadius)
            IN  IF IsError(circle) THEN Raise(circle.exc)
                ELSE LET new == DepthCircles(circle.val)
                     IN  IF IsError(new) THEN Raise(new.exc)
                         ELSE Advance(circle.val, new.val)

\* neither the `if` nor the `elif` holds: the loop body does nothing
SkipVertex ==
    /\ pc = "loop"
    /\ ~LengthMode
    /\ ~DepthMode
    /\ LeaveBranch
    /\ UNCHANGED <<triangleVars, args, memo, circleVars>>

\* what the call hands back: nothing when the figure is drawn
ReturnValue == IF args.want2plot THEN None ELSE Some(lstCirc)

\* variant: the attribute is set by the first call only
CachedListOnce == IF self_lstCirc = None THEN Some(lstCirc) ELSE self_lstCirc

\* self.lstCirc = lstCirc
CachedList == Some(lstCirc)

\* after the loop: the attribute is set, then the figure is drawn or the
\* list is returned
Finish ==
    /\ pc = "exit"
    /\ self_lstCirc' = CachedList
    /\ plotted' = (plotted \/ args.want2plot)
    /\ ret' = ReturnValue
    /\ raised' = None
    /\ pc' = "returned"
    /\ DropLocals
    /\ UNCHANGED <<triangleVars, args, memo, circleVars>>

Next == Call \/ LengthStep \/ DepthStep \/ SkipVertex \/ Finish

Spec == Init /\ [][Next]_vars

(***************************************************************************)
(* A caller that keeps the outcome of one call, to compare it with the     *)
(* outcome of a later call (as the tests of the alias do).                 *)
(***************************************************************************)
Remember ==
    /\ pc \in {"returned", "raised"}
    /\ memo = None
    /\ memo' = Some([args |-> args, ret |-> ret, raised |-> raised])
    /\ UNCHANGED <<triangleVars, frameVars, self_lstCirc, pc, ret, raised,
                   plotted, circleVars>>

CallMemo == CallWith(MemoDepthArgs, MemoLengthArgs, MemoLengthArgs, {FALSE})

NextMemo ==
    CallMemo \/ LengthStep \/ DepthStep \/ SkipVertex \/ Finish \/ Remember

SpecMemo == Init /\ [][NextMemo]_vars

(***************************************************************************)
(* A caller of Circle.descartesTheorem, as the examples of its docstring   *)
(* and the tests are: it builds two or three circles and applies the       *)
(* method to them.                                                         *)
(***************************************************************************)
\* the centers and the radii of the circles the caller builds.  The circles
\* of radius 1, 2, 3 at (0,0), (3,0), (0,4) are mutually tangent (the
\* distances of their centers are 3, 4, 5); a negative radius makes a
\* negative curvature
Centers == {<<0, 0>>, <<3000, 0>>, <<0, 4000>>, <<5000, 0>>}
Radii == {1000, 2000, 3000, -1000}

\* the two tangent circles of the docstring and of
\* test_descartes_special_case_keeps_tangency
DocCircles == {Circle(<<4406, 2677>>, 869).val, Circle(<<3227, 2100>>, 443).val}

CircleArgs == {Circle(c, r).val : c \in Centers, r \in Radii} \cup DocCircles

OperandArgs ==
    [self : CircleArgs, circle1 : CircleArgs,
     circle2 : {None} \cup {Some(c) : c \in CircleArgs}]

\* Triangle.__init__ as in Init; the caller has built its circles
InitCircle ==
    /\ \E coordinates \in Coordinates : NewTriangle(coordinates)
    /\ operands \in OperandArgs
    /\ circles = None

\* variant: the distances R1 and R2 are accumulated into the radii of the
\* operands (self.radius += radius) instead of being kept in locals
OperandsAfterAccumulating(ops, result) ==
    IF IsError(result) THEN ops
    ELSE [ops EXCEPT !.self.radius = @ + result.val[1].radius,
                     !.circle1.radius = @ + result.val[1].radius]

\* the circles the caller holds after the call: descartesTheorem only reads
\* the attributes of self, circle1 and circle2
OperandsAfter(ops, result) == ops

\* circles = self.descartesTheorem(circle1, circle2)
ApplyDescartes ==
    /\ operands # None
    /\ circles = None
    /\ LET result == descartesTheorem(operands.self, operands.circle1,
                                      operands.circle2)
       IN  /\ circles' = Some(result)
           /\ operands' = OperandsAfter(operands, result)
    /\ UNCHANGED <<triangleVars, frameVars, self_lstCirc, pc, ret, raised,
                   plotted, memo>>

NextCircle == ApplyDescartes

SpecCircle == InitCircle /\ [][NextCircle]_vars

(***************************************************************************)
(* A program that holds a Triangle and Circles of its own, and uses both:  *)
(* any calls of circInTriangle, and a call of descartesTheorem.            *)
(***************************************************************************)
\* the circles of the caller: those of the docstring, with or without the
\* second of them as circle2
BothOperandArgs ==
    [self : DocCircles, circle1 : DocCircles,
     circle2 : {None} \cup {Some(c) : c \in DocCircles}]

\* the arguments of its calls of circInTriangle
BothDepthArgs  == {None, Some(1)}
BothLengthArgs == {None, Some(500)}

InitBoth ==
    /\ \E coordinates \in Coordinates : NewTriangle(coordinates)
    /\ operands \in BothOperandArgs
    /\ circles = None

CallBoth == CallWith(BothDepthArgs, BothLengthArgs, {None}, BOOLEAN)

NextBoth ==
    CallBoth \/ LengthStep \/ DepthStep \/ SkipVertex \/ Finish
        \/ ApplyDescartes

SpecBoth == InitBoth /\ [][NextBoth]_vars

(***************************************************************************)
(* The construction of a Triangle from any three points, degenerate ones   *)
(* included: Triangle.__init__ has set the vertices and calls              *)
(* getGeomProperties.                                                      *)
(***************************************************************************)
\* the float nan: a value apart from every number the model computes.  No
\* arithmetic of the model is applied to it (getGeomProperties is the only
\* operation of this specification)
NaN == -999999999

\* Circle(center, radius) for center = (nan, nan) and radius = nan: nothing
\* raises (1 / nan is nan), every attribute is nan
NaNCircle ==
    [center    |-> <<NaN, NaN>>,
     radius    |-> NaN,
     curvature |-> NaN,
     diameter  |-> NaN,
     area      |-> NaN,
     perimeter |-> NaN]

\* the points the caller takes the three vertices from: every choice of
\* three, so also three points on a line and points that coincide
Points == {<<x, y>> : x \in {0, 1000, 2000}, y \in {0, 1000, 2000}}
AnyCoordinates == Points \X Points \X Points

\* Triangle.__init__ after self.vertices = dict(zip("ABC", coordinates)):
\* no other attribute exists yet
InitGeom ==
    /\ \E coordinates \in AnyCoordinates :
           vertices = [A |-> coordinates[1], B |-> coordinates[2],
                       C |-> coordinates[3]]
    /\ area = None
    /\ sides = None
    /\ perimeter = None
    /\ distToIncenter = None
    /\ incircle = None
    /\ self_lstCirc = None
    /\ args = NoArgs
    /\ lenght = None
    /\ lstCirc = <<>>
    /\ auxCirc = None
    /\ auxDist = 0
    /\ vi = 0
    /\ i = 0
    /\ pc = "new"
    /\ ret = None
    /\ raised = None
    /\ plotted = FALSE
    /\ memo = None
    /\ operands = None
    /\ circles = None

\* Triangle.getGeomProperties, called by Triangle.__init__.  The construction
\* ends with a Triangle (pc = "idle") or with the exception that leaves
\* __init__ (pc = "failed": the caller gets no object)
getGeomProperties ==
    /\ pc = "new"
    /\ IF GeomPerimeter(vertices) = 0
       THEN \* the three points coincide: 2 * area / perimeter and
            \* (...) / perimeter are 0 / 0 in numpy arithmetic, which gives nan
            \* with a RuntimeWarning and raises nothing
            /\ area' = GeomArea(vertices)
            /\ sides' = GeomSides(vertices)
            /\ perimeter' = GeomPerimeter(vertices)
            /\ distToIncenter' = [k \in 1..3 |-> NaN]
            /\ incircle' = NaNCircle
            /\ pc' = "idle"
            /\ UNCHANGED raised
       ELSE LET circle == Circle(GeomCenter(vertices), GeomRadius(vertices))
            IN  IF IsError(circle)
                THEN \* 1 / self.radius in Circle.__init__, for radius 0.0
                     /\ raised' = Some(circle.exc)
                     /\ pc' = "failed"
                     /\ UNCHANGED <<area, sides, perimeter, distToIncenter,
                                    incircle>>
                ELSE /\ area' = GeomArea(vertices)
                     /\ sides' = GeomSides(vertices)
                     /\ perimeter' = GeomPerimeter(vertices)
                     /\ distToIncenter' = GeomDistToIncenter(vertices)
                     /\ incircle' = circle.val
                     /\ pc' = "idle"
                     /\ UNCHANGED raised
    /\ UNCHANGED <<vertices, frameVars, self_lstCirc, ret, plotted, memo,
                   circleVars>>

NextGeom == getGeomProperties

SpecGeom == InitGeom /\ [][NextGeom]_vars

(***************************************************************************)
(* Length-bounded calls with a length near the resolution of the           *)
(* arithmetic.                                                             *)
(***************************************************************************)
\* a triangle of positive area (0.5 * 4.0 * 0.5 = 1.0) whose first vertex
\* has an angle of about 152 degrees: the first circle towards it is small
\* next to the incircle
FlatCoordinates == { <<<<2000, 500>>, <<0, 0>>, <<4000, 0>>>> }

\* positive lengths: two units of the last digit of the arithmetic, and
\* the lengths of the other specifications
FineLengths == {2} \cup MemoLengths

\* a Triangle has been constructed, flat or not
InitLength ==
    /\ \E coordinates \in Coordinates \cup FlatCoordinates :
           NewTriangle(coordinates)
    /\ operands = None
    /\ circles = None

\* circInTriangle(lenght=l) with a positive l
CallLength == CallWith({None}, {Some(l) : l \in FineLengths}, {None}, BOOLEAN)

NextLength == CallLength \/ LengthStep \/ Finish

SpecLength == InitLength /\ [][NextLength]_vars


\* the largest difference, in units of the arithmetic, at which two lengths
\* count as equal (the tests compare lengths with np.isclose)
Tolerance == 2

IsClose(x, y) == Abs(x - y) <= Tolerance

(***************************************************************************)
(* Properties of Triangle.circInTriangle.                                  *)
(***************************************************************************)
\* a call has been made and is over
CallOver == pc \in {"returned", "raised"}

\* the arguments of the running or last call name only a depth
DepthOnlyArgs ==
    args.depth # None /\ args.lenght = None /\ args.length = None

\* ... only a length, under either name or both
LengthOnlyArgs ==
    args.depth = None /\ (args.lenght # None \/ args.length # None)

\* ... the length given to a call with arguments a
GivenLength(a) == IF a.length # None THEN Val(a.length) ELSE Val(a.lenght)

\* ... both names of the length, with different values
AliasesDiffer ==
    args.lenght # None /\ args.length # None /\ args.lenght # args.length

\* C1: for every triangle, circInTriangle(depth=0) with no length and no
\* lenght returns a list of exactly one circle, the incircle of the triangle.
C1_DepthZeroReturnsIncircle ==
    (CallOver /\ DepthOnlyArgs /\ args.depth = Some(0) /\ ~args.want2plot)
        => (pc = "returned" /\ ret = Some(<<incircle>>))

C1_Witness ==
    /\ pc = "returned"
    /\ DepthOnlyArgs /\ args.depth = Some(0) /\ ~args.want2plot
    /\ Len(Val(ret)) = 1
    /\ Val(ret)[1].radius = GeomRadius(vertices)

\* C2: a call that gives both length and lenght with unequal values raises
\* ValueError whatever the depth is; it returns nothing.
C2_ConflictingAliasesRaise ==
    (pc # "idle" /\ AliasesDiffer)
        => (pc = "raised" /\ raised = Some(ValueError) /\ ret = None)

C2_Witness ==
    /\ pc = "raised"
    /\ raised = Some(ValueError)
    /\ AliasesDiffer
    /\ args.depth = Some(1)

\* the arguments a are those of circInTriangle(lenght=x), of
\* circInTriangle(length=x) or of circInTriangle(lenght=x, length=x)
LengthCallOf(a, x) ==
    /\ a.depth = None
    /\ ~a.want2plot
    /\ <<a.lenght, a.length>> \in
           {<<Some(x), None>>, <<None, Some(x)>>, <<Some(x), Some(x)>>}

BothSupplied == args.depth # None /\ (args.lenght # None \/ args.length # None)
NeitherSupplied == args.depth = None /\ args.lenght = None /\ args.length = None

BoundOutsideDomain ==
    \/ args.depth # None /\ Val(args.depth) < 0
    \/ args.lenght # None /\ Val(args.lenght) <= 0
    \/ args.length # None /\ Val(args.length) <= 0

\* C5: a call with a negative depth, or with a length (lenght) that is zero
\* or negative, raises a configuration error: it neither returns a result
\* nor goes on to iterate.
C5_BoundOutsideDomainRejected ==
    BoundOutsideDomain =>
        /\ pc # "returned"
        /\ ~(pc = "loop" /\ i > 0)
        /\ CallOver => raised = Some(ValueError)

DepthBlockInOrder(aux, c) ==
    LET c31 == descartesTheorem(aux, c, None).val[1]
        c32 == descartesTheorem(aux, c, None).val[2]
        c41 == descartesTheorem(aux, c, Some(c31)).val[1]
        c42 == descartesTheorem(aux, c, Some(c31)).val[2]
        c52 == descartesTheorem(c, c31, None).val[2]
        c61 == descartesTheorem(c, c32, None).val[1]
        c71 == descartesTheorem(aux, c31, None).val[1]
        c82 == descartesTheorem(aux, c32, None).val[2]
    IN  <<c, c31, c32, c41, c42, c52, c61, c71, c82>>

LengthBlockInOrder(aux, c) ==
    LET c31 == descartesTheorem(aux, c, None).val[1]
        c32 == descartesTheorem(aux, c, None).val[2]
    IN  <<c, c31, c32>>

\* one step of a call keeps the generation order
GenerationOrderStep ==
    /\ (Callable /\ pc' = "loop") => (lstCirc' = <<incircle>> /\ vi' = 1)
    /\ (pc = "loop" /\ pc' \in {"loop", "exit"}) =>
          IF lstCirc' # lstCirc
          THEN /\ vi' = vi
               /\ i' = i + 1
               /\ auxCirc'.radius < auxCirc.radius
               /\ lstCirc' = lstCirc \o
                     (IF DepthMode THEN DepthBlockInOrder(auxCirc, auxCirc')
                                   ELSE LengthBlockInOrder(auxCirc, auxCirc'))
          ELSE /\ pc' = "loop" => (vi' = vi + 1 /\ i' = 0 /\ auxCirc' = incircle)
               /\ pc' = "exit" => vi = 3
    /\ (pc = "exit" /\ pc' = "returned") =>
          /\ self_lstCirc' = Some(lstCirc)
          /\ ret' \in {None, Some(lstCirc)}

\* C7: the list is in generation order: the incircle first; then the
\* branches of the vertices A, B, C in this order; within a branch level k
\* before level k+1; within a level the new circle on the bisectrix, then
\* its Descartes circles c31, c32, c41, c42, c52, c61, c71, c82 (depth mode)
\* or c31, c32 (length mode).
C7_GenerationOrder == [][GenerationOrderStep]_vars

C7_Witness ==
    /\ pc = "loop"
    /\ DepthMode
    /\ vi = 3
    /\ i = 2
    /\ Len(lstCirc) = 1 + 18 + 18 + 18

\* the circles on the bisectrix in a list built in length mode: the first
\* of every three after the incircle
BisectorCircles(lst) == {lst[k] : k \in {j \in 2..Len(lst) : j % 3 = 2}}

\* one step of the length-bounded loop
LengthStepAsClaimed ==
    (pc = "loop" /\ LengthMode /\ pc' # "raised") =>
        IF 2 * NewRadius <= Val(lenght)
        THEN /\ lstCirc' = lstCirc
             /\ (pc' = "loop" /\ vi' = vi + 1 /\ i' = 0) \/ pc' = "exit"
        ELSE /\ pc' = "loop" /\ vi' = vi /\ i' = i + 1
             /\ Len(lstCirc') = Len(lstCirc) + 3
             /\ SubSeq(lstCirc', 1, Len(lstCirc)) = lstCirc
             /\ lstCirc'[Len(lstCirc) + 1].radius = NewRadius

\* C8: in length mode with length L, the loop of a vertex stops at the first
\* candidate circle with 2*radius <= L and appends nothing from that step;
\* every other step appends exactly three circles; every circle on the
\* bisectrix in the list has a diameter greater than L.
C8_LengthStop ==
    /\ [][LengthStepAsClaimed]_vars
    /\ [](LengthOnlyArgs =>
            /\ pc \in {"loop", "exit"} =>
                  /\ Len(lstCirc) % 3 = 1
                  /\ \A c \in BisectorCircles(lstCirc) :
                         2 * c.radius > GivenLength(args)
            /\ pc = "returned" =>
                  \A c \in BisectorCircles(Val(self_lstCirc)) :
                      2 * c.radius > GivenLength(args))

C8_Witness ==
    /\ pc = "loop"
    /\ LengthMode
    /\ i = 2
    /\ Val(lenght) > 0
    /\ 2 * NewRadius <= Val(lenght)
    /\ Len(lstCirc) >= 7

C10_Idempotent ==
    (CallOver /\ memo # None /\ Val(memo).args = args)
        => /\ raised = Val(memo).raised
           /\ ret = Val(memo).ret
           /\ pc = "returned" =>
                 /\ Len(Val(ret)) = Len(Val(Val(memo).ret))
                 /\ \A k \in 1..Len(Val(ret)) :
                        /\ Val(ret)[k].center = Val(Val(memo).ret)[k].center
                        /\ Val(ret)[k].radius = Val(Val(memo).ret)[k].radius

C10_Witness ==
    /\ pc = "returned"
    /\ memo # None
    /\ Val(memo).args = args
    /\ args.depth = Some(1) /\ args.lenght = None /\ args.length = None
    /\ Len(Val(ret)) = 28
    /\ Val(memo).ret = ret

(***************************************************************************)
(* Properties of the placement of the circles on the bisectrices.          *)
(***************************************************************************)
\* a step of a branch (of either mode) that appends a level of circles
AppendsLevel == pc = "loop" /\ pc' = "loop" /\ lstCirc' # lstCirc

\* the step that appends a level, for the current circle (center O, radius
\* R), the target vertex V and the current distance D
PlacementStep ==
    AppendsLevel =>
        LET O == auxCirc.center
            R == auxCirc.radius
            V == vertices[Labels[vi]]
            D == auxDist
            new == lstCirc'[Len(lstCirc) + 1]
            r == new.radius
        IN  /\ D = EuclideanDistance(V, O)
            /\ r = Div(Mul(R, D) - Mul(R, R), R + D)
            /\ new.center = <<O[1] + Mul(Div(R + r, D), V[1] - O[1]),
                              O[2] + Mul(Div(R + r, D), V[2] - O[2])>>
            /\ IsClose(EuclideanDistance(new.center, O), R + r)
            /\ IsClose(EuclideanDistance(new.center, O)
                           + EuclideanDistance(new.center, V), D)
            /\ auxCirc' = new
            /\ auxDist' = EuclideanDistance(V, new.center)
            /\ IsClose(auxDist', D - (R + r))

\* C16: placement of the new circle in circInTriangle, in both modes: for
\* the current circle (center O, radius R) and the vertex V at the current
\* distance D from O, the new circle has the radius r = (R*D - R^2)/(R + D)
\* and the center O + ((R + r)/D)*(V - O); the center is on the segment O-V
\* at the distance R + r from O (the new circle touches the current one),
\* and the distance of the next step is D - (R + r).
C16_Placement == [][PlacementStep]_vars

C16_Witness ==
    /\ pc = "loop"
    /\ LengthMode
    /\ vi = 2
    /\ i = 2
    /\ auxCirc = lstCirc[Len(lstCirc) - 2]
    /\ auxDist = EuclideanDistance(vertices.B, auxCirc.center)
    /\ IsClose(EuclideanDistance(incircle.center, auxCirc.center) + auxDist,
               distToIncenter[2])

(***************************************************************************)
(* Frame properties.                                                       *)
(***************************************************************************)
\* the attributes of the Triangle are those its construction derived from
\* the vertices
TriangleAsConstructed ==
    /\ area = GeomArea(vertices)
    /\ sides = GeomSides(vertices)
    /\ perimeter = GeomPerimeter(vertices)
    /\ distToIncenter = GeomDistToIncenter(vertices)
    /\ incircle = Circle(GeomCenter(vertices), GeomRadius(vertices)).val

\* the attributes of the circle c are those its construction derived from
\* its center and its radius
CircleAsConstructed(c) == c = Circle(c.center, c.radius).val

\* C17: frame.  No call of circInTriangle changes vertices, area, sides,
\* perimeter, distToIncenter or incircle of the Triangle (of its attributes
\* only lstCirc changes), and descartesTheorem changes no attribute of self,
\* circle1 or circle2: what it returns are two other circles.
C17_Frame ==
    /\ [][UNCHANGED triangleVars]_vars
    /\ [][operands' = operands]_vars
    /\ [][circles' # circles =>
             /\ ~IsError(Val(circles')) =>
                    /\ Len(Val(circles').val) = 2
                    /\ \A k \in 1..2 :
                           CircleAsConstructed(Val(circles').val[k])
             /\ UNCHANGED <<self_lstCirc, frameVars, pc, ret, raised>>]_vars
    /\ [](/\ TriangleAsConstructed
          /\ CircleAsConstructed(operands.self)
          /\ CircleAsConstructed(operands.circle1)
          /\ operands.circle2 # None =>
                 CircleAsConstructed(Val(operands.circle2)))

C17_Witness ==
    /\ pc = "returned"
    /\ self_lstCirc # None
    /\ Len(Val(self_lstCirc)) = 28
    /\ circles # None
    /\ ~IsError(Val(circles))
    /\ operands.circle2 # None
    /\ TriangleAsConstructed
    /\ CircleAsConstructed(operands.self)

(***************************************************************************)
(* Properties of Circle.descartesTheorem.                                  *)
(***************************************************************************)
\* a and b touch from outside: the distance of the centers is the sum of
\* the radii
Tangent(a, b) ==
    IsClose(EuclideanDistance(a.center, b.center), a.radius + b.radius)

ExternallyTangent(a, b) == a.radius > 0 /\ b.radius > 0 /\ Tangent(a, b)

\* the caller has applied descartesTheorem to its circles
Applied == operands # None /\ circles # None

\* ... to two externally tangent circles, circle2 omitted
AppliedToTangentPair ==
    /\ Applied
    /\ operands.circle2 = None
    /\ ExternallyTangent(operands.self, operands.circle1)

\* ... to three mutually tangent circles
AppliedToTangentTriple ==
    /\ Applied
    /\ operands.circle2 # None
    /\ ExternallyTangent(operands.self, operands.circle1)
    /\ ExternallyTangent(operands.self, Val(operands.circle2))
    /\ ExternallyTangent(operands.circle1, Val(operands.circle2))

\* C11: special case of descartesTheorem (circle2 omitted): for two
\* externally tangent circles self and circle1 the call returns two circles
\* of the same radius 1/(c0 + c1 + 2*sqrt(c0*c1)), each tangent to self and
\* to circle1 (distance of the centers = sum of the radii).
C11_SpecialCaseTangent ==
    AppliedToTangentPair =>
        LET result == Val(circles)
            c0 == operands.self.curvature
            c1 == operands.circle1.curvature
        IN  /\ ~IsError(result)
            /\ Len(result.val) = 2
            /\ \A k \in 1..2 :
                   /\ result.val[k].radius
                          = Div(One, c0 + c1 + 2 * Sqrt(Mul(c0, c1)))
                   /\ Tangent(result.val[k], operands.self)
                   /\ Tangent(result.val[k], operands.circle1)
            /\ result.val[1].center # result.val[2].center

C11_Witness ==
    /\ AppliedToTangentPair
    /\ operands.self.radius = 869
    /\ operands.circle1.radius = 443
    /\ Val(circles).val[1].radius = 151
    /\ Val(circles).val[2].radius = 151

\* C12: general case of descartesTheorem (circle2 given): for three mutually
\* tangent circles the call returns two circles, each tangent to self, to
\* circle1 and to circle2.
C12_GeneralCaseTangent ==
    AppliedToTangentTriple =>
        LET result == Val(circles)
        IN  /\ ~IsError(result)
            /\ Len(result.val) = 2
            /\ \A k \in 1..2 :
                   /\ Tangent(result.val[k], operands.self)
                   /\ Tangent(result.val[k], operands.circle1)
                   /\ Tangent(result.val[k], Val(operands.circle2))

\* C13: in the general case the new curvature is the Descartes relation of
\* the three curvatures and of nothing else:
\* 1/radius = c0 + c1 + c2 + 2*sqrt(c0*c1 + c1*c2 + c2*c0).
C13_StandardDescartesCurvature ==
    (Applied /\ operands.circle2 # None /\ ~IsError(Val(circles))) =>
        LET c0 == operands.self.curvature
            c1 == operands.circle1.curvature
            c2 == Val(operands.circle2).curvature
        IN  \A k \in 1..2 :
                Val(circles).val[k].radius
                    = Div(One, c0 + c1 + c2
                               + 2 * Sqrt(Mul(c0, c1) + Mul(c1, c2) + Mul(c2, c0)))

\* C14: descartesTheorem guards its inputs: when self and circle1 are not
\* tangent, or the sum of the products of the curvatures (the radicand) is
\* not positive, the call raises an error and returns no circles.
C14_GuardsInputs ==
    (Applied /\ (\/ ~Tangent(operands.self, operands.circle1)
                 \/ DescartesRadicand(operands.self, operands.circle1,
                                      operands.circle2) <= 0))
        => IsError(Val(circles))

(***************************************************************************)
(* Properties of the construction of a Triangle.                           *)
(***************************************************************************)
\* the vertices are on one line (three points that coincide included)
ZeroArea == GeomArea(vertices) = 0

\* the exceptions of Python's arithmetic, which name no geometric cause
ArithmeticErrors == {ZeroDivisionError, TypeError}

\* C15: the construction of a Triangle from vertices of zero area (on one
\* line, or coinciding) ends at once in an error that names the degeneracy;
\* no Triangle whose incircle has a radius of zero or a radius that is not
\* finite is ever produced.
C15_DegenerateRejected ==
    /\ (pc # "new" /\ ZeroArea) =>
           /\ pc = "failed"
           /\ raised # None
           /\ Val(raised) \notin ArithmeticErrors
    /\ pc = "idle" => (incircle.radius # NaN /\ incircle.radius # 0)

(***************************************************************************)
(* Properties of the loop over the levels of a vertex branch.              *)
(***************************************************************************)
\* the call is in the branch of a vertex, in one of the two modes
InBranch == pc = "loop" /\ (LengthMode \/ DepthMode)

\* the current distance to the vertex exceeds the current radius, which is
\* positive
DistExceedsRadius == auxDist > auxCirc.radius /\ auxCirc.radius > 0

\* a step that appends a level from a state where the distance exceeds the
\* radius
DecreasingStep ==
    (InBranch /\ DistExceedsRadius /\ AppendsLevel) =>
        /\ auxCirc.radius + auxDist # 0
        /\ auxDist # 0
        /\ auxCirc'.radius = NewRadius
        /\ auxCirc'.radius >= 0
        /\ auxCirc'.radius < auxCirc.radius
        /\ auxDist' + Tolerance > auxCirc'.radius

PositiveLengthCall == LengthOnlyArgs /\ ~AliasesDiffer /\ GivenLength(args) > 0

\* C19: for every triangle of positive area and every length L > 0 the
\* `while True` loop of the length-bounded call reaches its break for each
\* of the three vertices and the call returns: it does not end in an
\* exception.
C19_PositiveLengthReturns ==
    (PositiveLengthCall /\ area > 0 /\ CallOver) => (pc = "returned" /\ raised = None)

====
